---- MODULE Spec2Model ----
(***************************************************************************)
(* Cache-accelerated common-prefix quicksort: optimized_orasort of         *)
(* orasort2.c, with the pivot choice of OptimizedOrasort::sort_recursive   *)
(* of orasort2.cpp (any index of the range; the middle index of the C      *)
(* code is one of them).                                                   *)
(*                                                                         *)
(* A string is a finite sequence of non-zero bytes; offset k of a string   *)
(* is its (k+1)-th byte, offset Len is the terminator (0), and every       *)
(* offset past the terminator is outside the string.  A read there is      *)
(* undefined: it yields any byte.                                          *)
(* A uint64_t is the sequence of its eight base-256 digits, most           *)
(* significant digit first.  A pointer to a string is the index of the     *)
(* string in the caller's array at the time of the call.                   *)
(***************************************************************************)
EXTENDS Integers, Sequences, FiniteSets, Bags, TLC

\* ------------------------------------------------------------------ bounds
MaxN == 3            \* longest input array
MaxGarbageRun == 0   \* longest run of bytes a scan past a terminator matches

\* ------------------------------------------------------- program constants
WindowBytes == 8
INT_MAX == 2147483647

\* --------------------------------------------------------- input universe
\* The input strings: nothing or a run of 1-bytes that fills one window,
\* followed by at most one byte.  They are the empty string, strings inside
\* one window, a string that fills it exactly, and strings that share a
\* whole window and differ, or end, just behind it.
Bytes == {1, 2}

PrefixLens == {0, WindowBytes}

TailLens == {0, 1}

Ones(m) == [k \in 1..m |-> 1]

Tails == UNION {[1..t -> Bytes] : t \in TailLens}

Strings == {Ones(m) \o t : m \in PrefixLens, t \in Tails}

\* ------------------------------------------------------------- C strings
strlen(s) == Len(s)

\* the byte at offset k, for k <= strlen(s)
CharAt(s, k) == IF k < Len(s) THEN s[k + 1] ELSE 0

\* ----------------------------------------------------- 64-bit arithmetic
Zero64 == [d \in 1..8 |-> 0]

\* memcpy(&raw, buf, 8) on a little-endian machine: buf[0] is the least
\* significant digit
LoadLE(buf) == [d \in 1..8 |-> buf[8 - d]]

\* the byte swap left out: the window keeps the machine's little-endian order
bswap64_NoSwap(x) == x

bswap64(x) == [d \in 1..8 |-> x[9 - d]]

RECURSIVE Xor8(_, _)
Xor8(a, b) ==
    IF a = 0 /\ b = 0 THEN 0
    ELSE (IF (a % 2) = (b % 2) THEN 0 ELSE 1) + 2 * Xor8(a \div 2, b \div 2)

Xor64(x, y) == [d \in 1..8 |-> Xor8(x[d], y[d])]

\* the operands of the comparison exchanged
Less64_Exchanged(x, y) ==
    \E d \in 1..8 : y[d] < x[d] /\ \A e \in 1..(d - 1) : x[e] = y[e]

\* a < b as unsigned 64-bit integers
Less64(x, y) ==
    \E d \in 1..8 : x[d] < y[d] /\ \A e \in 1..(d - 1) : x[e] = y[e]

RECURSIVE BitLen(_)
BitLen(b) == IF b = 0 THEN 0 ELSE 1 + BitLen(b \div 2)

\* count of leading zero bits, x # 0
clz64(x) ==
    LET d == CHOOSE e \in 1..8 : x[e] # 0 /\ \A f \in 1..(e - 1) : x[f] = 0
    IN  8 * (d - 1) + (8 - BitLen(x[d]))

\* ------------------------------------------------------------ the cache
refresh_cache(str, depth) ==
    LET len == strlen(str)
        remaining == len - depth
        copy_len == IF remaining < WindowBytes THEN remaining ELSE WindowBytes
        buf == [b \in 0..7 |-> IF b < copy_len THEN str[depth + b + 1] ELSE 0]
    IN  IF depth >= len THEN Zero64 ELSE bswap64(LoadLE(buf))

\* ----------------------------------------------------------- comparison
RECURSIVE ScanLen(_, _, _, _)
\* while (s1[k] && s2[k] && s1[k] == s2[k]) k++, both scans inside the strings
ScanLen(s1, s2, from, k) ==
    IF /\ CharAt(s1, from + k) # 0
       /\ CharAt(s2, from + k) # 0
       /\ CharAt(s1, from + k) = CharAt(s2, from + k)
    THEN ScanLen(s1, s2, from, k + 1)
    ELSE k

\* The outcomes of compare_and_count(a, b, depth): ordering, match length and
\* whether the scan started past a terminator.  A scan that starts past a
\* terminator reads bytes that belong to no string: it matches any number of
\* them and ends on any pair of them.
CompareOutcomes(atext, acache, btext, bcache, depth) ==
    IF acache # bcache
    THEN {[cmp |-> IF Less64(acache, bcache) THEN -1 ELSE 1,
           match_len |-> clz64(Xor64(acache, bcache)) \div 8,
           oob |-> FALSE]}
    ELSE IF depth + WindowBytes <= strlen(atext) /\ depth + WindowBytes <= strlen(btext)
         THEN LET k == ScanLen(atext, btext, depth + WindowBytes, 0)
              IN  {[cmp |-> CharAt(atext, depth + WindowBytes + k)
                            - CharAt(btext, depth + WindowBytes + k),
                    match_len |-> WindowBytes + k,
                    oob |-> FALSE]}
         ELSE {[cmp |-> c, match_len |-> WindowBytes + k, oob |-> TRUE] :
                 c \in {-1, 0, 1}, k \in 0..MaxGarbageRun}


\* ------------------------------------------------------------------ state
VARIABLES
    text,        \* storage of the caller's strings: pointer -> bytes
    input,       \* the caller's array as it was when the sort was called
    strings,     \* the caller's array: slot -> pointer
    items,       \* the StringItem array: slot -> [ptr, cache]; <<>> when not allocated
    stack,       \* activation records of orasort_recursive, innermost last
    pc,          \* position in optimized_orasort
    ret,         \* what optimized_orasort handed back to its caller
    allocFailed, \* malloc returned NULL
    lastCmp      \* arguments and results of compare_and_count in the scan loops

vars == <<text, input, strings, items, stack, pc, ret, allocFailed, lastCmp>>

n == Cardinality(DOMAIN text)

NoItem == [ptr |-> -1, cache |-> Zero64]

NoCmp == [valid |-> FALSE]

Frame(low, high, depth) ==
    [low |-> low, high |-> high, depth |-> depth, pc |-> "entry",
     i |-> 0, j |-> 0, pivot |-> NoItem, min_common |-> INT_MAX, new_depth |-> 0]

Top == stack[Len(stack)]

SetTop(f) == [stack EXCEPT ![Len(stack)] = f]

\* ------------------------------------------------- pieces of the sort code
\* the swap without its temporary: *a = *b; *b = *a
swap_items_NoTemp(arr, a, b) == [arr EXCEPT ![a] = arr[b]]

swap_items(arr, a, b) == [arr EXCEPT ![a] = arr[b], ![b] = arr[a]]

\* the offset low left out of the middle index
PivotChoices_NoLow(low, high) == {(high - low) \div 2}

\* C: low + (high - low) / 2; C++: low + rand() % (high - low + 1)
PivotChoices(low, high) == low..high

UpdateMin(min_common, match_len) ==
    IF match_len < min_common THEN match_len ELSE min_common

NewDepth(depth, min_common) ==
    depth + (IF min_common = INT_MAX THEN 0 ELSE min_common)

\* the refresh loop starting one slot late
RefreshRange_SkipFirst(arr, from, to, depth) ==
    [k \in DOMAIN arr |->
        IF from < k /\ k <= to
        THEN [arr[k] EXCEPT !.cache = refresh_cache(text[arr[k].ptr], depth)]
        ELSE arr[k]]

\* for (k = from; k <= to; k++) refresh_cache(&arr[k], depth)
RefreshRange(arr, from, to, depth) ==
    [k \in DOMAIN arr |->
        IF from <= k /\ k <= to
        THEN [arr[k] EXCEPT !.cache = refresh_cache(text[arr[k].ptr], depth)]
        ELSE arr[k]]

\* the left sub-range keeping the pivot slot
LeftRange_KeepPivot(low, j, high) == [low |-> low, high |-> j]

LeftRange(low, j, high) == [low |-> low, high |-> j - 1]

RightRange(low, j, high) == [low |-> j + 1, high |-> high]

InitItems(strs) ==
    [k \in DOMAIN strs |-> [ptr |-> strs[k], cache |-> refresh_cache(text[strs[k]], 0)]]

WriteBackItems(arr) == [k \in DOMAIN arr |-> arr[k].ptr]

\* ------------------------------------------------------------------ Init
Init ==
    /\ \E len \in 0..MaxN : text \in [0..(len - 1) -> Strings]
    /\ strings = [k \in DOMAIN text |-> k]
    /\ input = strings
    /\ items = <<>>
    /\ stack = <<>>
    /\ pc = "start"
    /\ ret = "pending"
    /\ allocFailed = FALSE
    /\ lastCmp = NoCmp

\* ------------------------------------------------- optimized_orasort
\* if (n <= 1) return;
ReturnTrivial ==
    /\ pc = "start"
    /\ n <= 1
    /\ pc' = "done"
    /\ ret' = "void"
    /\ UNCHANGED <<text, input, strings, items, stack, allocFailed, lastCmp>>

\* items = malloc(...); if (!items) return;
AllocFail ==
    /\ pc = "start"
    /\ n > 1
    /\ allocFailed' = TRUE
    /\ pc' = "done"
    /\ ret' = "void"
    /\ UNCHANGED <<text, input, strings, items, stack, lastCmp>>

\* malloc succeeds; items[i] = {strings[i], cache at depth 0}; call
\* orasort_recursive(items, 0, n - 1, 0)
AllocInit ==
    /\ pc = "start"
    /\ n > 1
    /\ items' = InitItems(strings)
    /\ stack' = <<Frame(0, n - 1, 0)>>
    /\ pc' = "sorting"
    /\ UNCHANGED <<text, input, strings, ret, allocFailed, lastCmp>>

\* strings[i] = items[i].ptr; free(items); return
WriteBack ==
    /\ pc = "writeback"
    /\ strings' = WriteBackItems(items)
    /\ items' = <<>>
    /\ pc' = "done"
    /\ ret' = "void"
    /\ UNCHANGED <<text, input, stack, allocFailed, lastCmp>>

\* ------------------------------------------------- orasort_recursive
Running(p) == pc = "sorting" /\ stack # <<>> /\ Top.pc = p

\* if (low >= high) return; choose the pivot, move it to low, copy it
Enter ==
    /\ Running("entry")
    /\ IF Top.low >= Top.high
       THEN /\ stack' = SetTop([Top EXCEPT !.pc = "ret"])
            /\ UNCHANGED items
       ELSE \E p \in PivotChoices(Top.low, Top.high) :
              LET arr == swap_items(items, Top.low, p) IN
              /\ items' = arr
              /\ stack' = SetTop([Top EXCEPT !.pivot = arr[Top.low],
                                             !.min_common = INT_MAX,
                                             !.i = Top.low + 1,
                                             !.j = Top.high,
                                             !.pc = "scanL"])
    /\ UNCHANGED <<text, input, strings, pc, ret, allocFailed, lastCmp>>

Compare(k, o) ==
    [valid |-> TRUE, a |-> items[k].ptr, b |-> Top.pivot.ptr,
     acache |-> items[k].cache, bcache |-> Top.pivot.cache,
     depth |-> Top.depth, cmp |-> o.cmp, match_len |-> o.match_len, oob |-> o.oob]

Outcomes(k) ==
    CompareOutcomes(text[items[k].ptr], items[k].cache,
                    text[Top.pivot.ptr], Top.pivot.cache, Top.depth)

\* Where control goes once a scan loop is left with cursors i and j: to the
\* other scan while i <= j, else through the failing loop conditions and the
\* break to the restoring of the pivot.
AfterScan(i, j, then) == IF i <= j THEN then ELSE "restore"

\* one iteration of the "Scan Left" loop
ScanLeft ==
    /\ Running("scanL")
    /\ Top.i <= Top.j
    /\ \E o \in Outcomes(Top.i) :
          /\ lastCmp' = Compare(Top.i, o)
          /\ stack' = SetTop([Top EXCEPT
                !.min_common = UpdateMin(Top.min_common, o.match_len),
                !.i = IF o.cmp >= 0 THEN Top.i ELSE Top.i + 1,
                !.pc = IF o.cmp >= 0 THEN "scanR"
                       ELSE AfterScan(Top.i + 1, Top.j, "scanL")])
    /\ UNCHANGED <<text, input, strings, items, pc, ret, allocFailed>>

\* one iteration of the "Scan Right" loop
ScanRight ==
    /\ Running("scanR")
    /\ Top.i <= Top.j
    /\ \E o \in Outcomes(Top.j) :
          /\ lastCmp' = Compare(Top.j, o)
          /\ stack' = SetTop([Top EXCEPT
                !.min_common = UpdateMin(Top.min_common, o.match_len),
                !.j = IF o.cmp <= 0 THEN Top.j ELSE Top.j - 1,
                !.pc = IF o.cmp <= 0 THEN "swap"
                       ELSE AfterScan(Top.i, Top.j - 1, "scanR")])
    /\ UNCHANGED <<text, input, strings, items, pc, ret, allocFailed>>

\* if (i <= j) { swap; i++; j--; }, reached by the break of "Scan Right" with
\* i <= j; match_len and cmp are locals of the scan loops
SwapStep ==
    /\ Running("swap")
    /\ Top.i <= Top.j
    /\ items' = swap_items(items, Top.i, Top.j)
    /\ stack' = SetTop([Top EXCEPT !.i = Top.i + 1, !.j = Top.j - 1,
                                   !.pc = AfterScan(Top.i + 1, Top.j - 1, "scanL")])
    /\ lastCmp' = NoCmp
    /\ UNCHANGED <<text, input, strings, pc, ret, allocFailed>>

\* swap_items(&arr[low], &arr[j]); new_depth = depth + min_common_with_pivot
RestorePivot ==
    /\ Running("restore")
    /\ items' = swap_items(items, Top.low, Top.j)
    /\ stack' = SetTop([Top EXCEPT
           !.new_depth = NewDepth(Top.depth, Top.min_common),
           !.min_common = IF Top.min_common = INT_MAX THEN 0 ELSE Top.min_common,
           !.pc = "left"])
    /\ lastCmp' = NoCmp
    /\ UNCHANGED <<text, input, strings, pc, ret, allocFailed>>

\* the sub-range r is refreshed when the depth advanced, then sorted
Recurse(r, after) ==
    IF r.low < r.high
    THEN /\ items' = IF Top.new_depth > Top.depth
                     THEN RefreshRange(items, r.low, r.high, Top.new_depth)
                     ELSE items
         /\ stack' = Append(SetTop([Top EXCEPT !.pc = after]),
                            Frame(r.low, r.high, Top.new_depth))
    ELSE /\ stack' = SetTop([Top EXCEPT !.pc = after])
         /\ UNCHANGED items

RecurseLeft ==
    /\ Running("left")
    /\ Recurse(LeftRange(Top.low, Top.j, Top.high), "right")
    /\ UNCHANGED <<text, input, strings, pc, ret, allocFailed, lastCmp>>

RecurseRight ==
    /\ Running("right")
    /\ Recurse(RightRange(Top.low, Top.j, Top.high), "ret")
    /\ UNCHANGED <<text, input, strings, pc, ret, allocFailed, lastCmp>>

\* return from orasort_recursive
Return ==
    /\ Running("ret")
    /\ stack' = SubSeq(stack, 1, Len(stack) - 1)
    /\ pc' = IF Len(stack) = 1 THEN "writeback" ELSE "sorting"
    /\ UNCHANGED <<text, input, strings, items, ret, allocFailed, lastCmp>>

Next ==
    \/ ReturnTrivial
    \/ AllocFail
    \/ AllocInit
    \/ Enter
    \/ ScanLeft
    \/ ScanRight
    \/ SwapStep
    \/ RestorePivot
    \/ RecurseLeft
    \/ RecurseRight
    \/ Return
    \/ WriteBack

Spec == Init /\ [][Next]_vars

\* the call runs to completion once started: it waits for nothing
FairSpec == Spec /\ WF_vars(Next)


\* ------------------------------------------------ vocabulary of the claims
RECURSIVE StrCmpFrom(_, _, _)
\* sign of the unsigned-byte lexicographic comparison, the terminator below
\* every byte
StrCmpFrom(s, t, k) ==
    IF CharAt(s, k) < CharAt(t, k) THEN -1
    ELSE IF CharAt(s, k) > CharAt(t, k) THEN 1
    ELSE IF CharAt(s, k) = 0 THEN 0
    ELSE StrCmpFrom(s, t, k + 1)

StrCmp(s, t) == StrCmpFrom(s, t, 0)

LexLE(s, t) == StrCmp(s, t) <= 0

Sign(x) == IF x < 0 THEN -1 ELSE IF x > 0 THEN 1 ELSE 0

RECURSIVE LcpFrom(_, _, _, _)
\* length of the longest common prefix of the suffixes s[d..] and t[d..]
LcpFrom(s, t, d, k) ==
    IF d + k < Len(s) /\ d + k < Len(t) /\ s[d + k + 1] = t[d + k + 1]
    THEN LcpFrom(s, t, d, k + 1)
    ELSE k

Lcp(s, t, d) == LcpFrom(s, t, d, 0)

\* s and t are at least d long and agree on their first d bytes
AgreeUpTo(s, t, d) ==
    /\ Len(s) >= d
    /\ Len(t) >= d
    /\ \A k \in 1..d : s[k] = t[k]

TextOf(it) == text[it.ptr]

Output == [k \in DOMAIN strings |-> text[strings[k]]]

PtrBag(f) ==
    LET ptrs == {f[k] : k \in DOMAIN f}
    IN  [p \in ptrs |-> Cardinality({k \in DOMAIN f : f[k] = p})]

Partitioning == {"scanL", "scanR", "swap", "restore", "left"}

\* -------------------------------------------------------------------- C1
\* C1: when the cached sort has run and returned, every adjacent pair of
\* output strings (x, y) satisfies x <= y in unsigned-byte lexicographic
\* order, for every input and every choice of pivots.
C1_Sorted ==
    (pc = "done" /\ ~allocFailed) =>
        \A k \in DOMAIN strings :
            (k + 1) \in DOMAIN strings => LexLE(Output[k], Output[k + 1])

\* an unsorted input with a duplicate and a string longer than the window
C1_Witness ==
    /\ pc = "done" /\ ~allocFailed /\ n >= 3
    /\ \E k \in DOMAIN input : (k + 1) \in DOMAIN input
                               /\ ~LexLE(text[input[k]], text[input[k + 1]])
    /\ \E a, b \in DOMAIN text : a # b /\ text[a] = text[b]
    /\ \E a \in DOMAIN text : Len(text[a]) > WindowBytes

\* -------------------------------------------------------------------- C2
\* C2: in every state of the sort the multiset of string references held in
\* the item array equals the multiset of the references of the input, and on
\* return the caller's array holds that same multiset.
C2_Permutation ==
    /\ pc \in {"sorting", "writeback"} => PtrBag(WriteBackItems(items)) = PtrBag(input)
    /\ PtrBag(strings) = PtrBag(input)

\* returned with the references in an order other than the input's
C2_Witness ==
    /\ pc = "done" /\ n >= 3 /\ strings # input
    /\ \E a, b \in DOMAIN text : a # b /\ text[a] = text[b]

\* -------------------------------------------------------------------- C3
\* what a caller can observe after a successful sort of the input
SortedViews ==
    {<<"void", s>> : s \in {t \in [DOMAIN input -> DOMAIN text] :
        /\ PtrBag(t) = PtrBag(input)
        /\ \A k \in DOMAIN t : (k + 1) \in DOMAIN t
                               => LexLE(text[t[k]], text[t[k + 1]])}}

\* C3: when the item array cannot be allocated the caller gets a result it
\* can tell from that of a successful sort, and its array is left as it was.
C3_FailureSurfaced ==
    (pc = "done" /\ allocFailed) =>
        /\ <<ret, strings>> \notin SortedViews
        /\ strings = input

\* -------------------------------------------------------------------- C4
\* a step that makes a call makes it on a shorter range inside the caller's
ChildSmaller ==
    Len(stack') > Len(stack) /\ stack # <<>> =>
        LET c == stack'[Len(stack')] IN
        /\ Top.low <= c.low /\ c.high <= Top.high
        /\ c.high < Top.j \/ Top.j < c.low
        /\ c.high - c.low < Top.high - Top.low

C5_Partitioned ==
    (pc = "sorting" /\ stack # <<>> /\ Top.pc = "left") =>
        /\ Top.low <= Top.j /\ Top.j <= Top.high
        /\ items[Top.j] = Top.pivot
        /\ \A k \in Top.low..Top.j : LexLE(TextOf(items[k]), TextOf(Top.pivot))
        /\ \A k \in (Top.j + 1)..Top.high : LexLE(TextOf(Top.pivot), TextOf(items[k]))

\* a partition of three items with one strictly below and one strictly above
C5_Witness ==
    /\ pc = "sorting" /\ stack # <<>> /\ Top.pc = "left"
    /\ Top.high - Top.low >= 2
    /\ Top.low < Top.j /\ Top.j < Top.high
    /\ ~LexLE(TextOf(Top.pivot), TextOf(items[Top.low]))
    /\ ~LexLE(TextOf(items[Top.high]), TextOf(Top.pivot))


\* -------------------------------------------------------------------- C6
\* C6: after a partition at depth d with shared prefix s, every other item
\* of the range has the pivot's byte at each offset d .. d+s-1 and each of
\* those offsets lies before the item's terminator; and on every entry to
\* orasort_recursive(low, high, depth) all strings of the range are at
\* least depth long and agree on their first depth bytes.
C6_SharedPrefix ==
    (pc = "sorting" /\ stack # <<>>) =>
        /\ Top.pc = "left" =>
              \A k \in (Top.low..Top.high) \ {Top.j} :
                  \A o \in Top.depth..(Top.depth + Top.min_common - 1) :
                      /\ o < Len(TextOf(items[k]))
                      /\ o < Len(TextOf(Top.pivot))
                      /\ CharAt(TextOf(items[k]), o) = CharAt(TextOf(Top.pivot), o)
        /\ Top.pc = "entry" =>
              \A k \in Top.low..Top.high :
                  AgreeUpTo(TextOf(items[k]), TextOf(items[Top.low]), Top.depth)

\* -------------------------------------------------------------------- C7
\* C7: the match length compare_and_count reports for a and b at depth d is
\* the length of the longest common prefix of a.text[d..] and b.text[d..]:
\* 0..7 when the windows differ, 8 + k when they are equal.
C7_MatchLen ==
    lastCmp.valid =>
        /\ lastCmp.match_len = Lcp(text[lastCmp.a], text[lastCmp.b], lastCmp.depth)
        /\ lastCmp.acache # lastCmp.bcache => lastCmp.match_len \in 0..(WindowBytes - 1)
        /\ lastCmp.acache = lastCmp.bcache => lastCmp.match_len >= WindowBytes

\* -------------------------------------------------------------------- C8
\* the 8 bytes of s from offset d, zeros behind the end of s
Slice(s, d) == [b \in 1..WindowBytes |-> IF d + b - 1 < Len(s) THEN s[d + b] ELSE 0]

SliceLess(x, y) ==
    \E b \in 1..WindowBytes : x[b] < y[b] /\ \A c \in 1..(b - 1) : x[c] = y[c]

\* C8: for a and b that agree on their first d bytes, with windows loaded at
\* d, the ordering compare_and_count returns is negative, zero or positive
\* exactly as a's string is below, equal to or above b's string; and the
\* unsigned comparison of the windows is the lexicographic comparison of the
\* zero-padded 8-byte slices.
C8_Ordering ==
    (/\ lastCmp.valid
     /\ AgreeUpTo(text[lastCmp.a], text[lastCmp.b], lastCmp.depth)) =>
        /\ Sign(lastCmp.cmp) = StrCmp(text[lastCmp.a], text[lastCmp.b])
        /\ Less64(lastCmp.acache, lastCmp.bcache)
             <=> SliceLess(Slice(text[lastCmp.a], lastCmp.depth),
                           Slice(text[lastCmp.b], lastCmp.depth))

\* -------------------------------------------------------------------- C9
\* the window of s at depth d, stated on the bytes: first byte most significant
Window(s, d) == [b \in 1..8 |-> IF d + b - 1 < Len(s) THEN s[d + b] ELSE 0]

\* C9: while orasort_recursive partitions a range [low, high] at depth d,
\* every item of the range, and the pivot copy, has as its window the up to
\* 8 bytes of its text from offset d, first byte most significant, padded
\* with zeros, and 0 when d >= length.
C9_WindowsLoaded ==
    (pc = "sorting" /\ stack # <<>>) =>
        /\ Top.pc \in Partitioning \cup {"entry"} =>
              \A k \in Top.low..Top.high :
                  items[k].cache = Window(TextOf(items[k]), Top.depth)
        /\ Top.pc \in Partitioning =>
              Top.pivot.cache = Window(TextOf(Top.pivot), Top.depth)

\* a sub-range entered at the depth past one window, with a non-zero window
C9_Witness ==
    /\ pc = "sorting" /\ Len(stack) >= 2 /\ Top.pc = "scanL"
    /\ Top.depth = WindowBytes
    /\ \E k \in Top.low..Top.high : items[k].cache # Zero64

\* ------------------------------------------------------------------- C10
\* a step changes no slot outside the range of any active call
FrameKept ==
    \A f \in 1..Len(stack) :
        \A k \in DOMAIN items :
            (k < stack[f].low \/ k > stack[f].high) =>
                k \in DOMAIN items' /\ items'[k] = items[k]

\* a call is made on the caller's range, on its own side of the pivot slot
SubRangesApart ==
    (stack # <<>> /\ Len(stack') > Len(stack)) =>
        LET c == stack'[Len(stack')] IN
        /\ Top.low <= c.low /\ c.high <= Top.high
        /\ Top.pc = "left" => c.high < Top.j
        /\ Top.pc = "right" => Top.j < c.low

C11_ScanInside ==
    (lastCmp.valid /\ lastCmp.acache = lastCmp.bcache) =>
        /\ lastCmp.depth + WindowBytes <= Len(text[lastCmp.a])
        /\ lastCmp.depth + WindowBytes <= Len(text[lastCmp.b])
        /\ ~lastCmp.oob


\* ------------------------------------------ the naive variant (orasort.c)
\* An array of the naive variant is a function slot -> pointer.  The sort
\* changes the array in place and draws its pivots from rand(): it is the
\* set of the arrays it can leave behind.
swap(arr, a, b) == [arr EXCEPT ![a] = arr[b], ![b] = arr[a]]

RECURSIVE PrefixScan(_, _, _, _, _)
\* the while loop of get_common_prefix, entered with k matching bytes
PrefixScan(ref, curr, depth, k, min_common) ==
    IF /\ CharAt(ref, depth + k) # 0
       /\ CharAt(curr, depth + k) # 0
       /\ CharAt(ref, depth + k) = CharAt(curr, depth + k)
    THEN IF min_common # -1 /\ k + 1 >= min_common
         THEN k + 1
         ELSE PrefixScan(ref, curr, depth, k + 1, min_common)
    ELSE k

RECURSIVE PrefixLoop(_, _, _, _, _, _)
\* the for loop of get_common_prefix from index i on
PrefixLoop(arr, ref, i, high, depth, min_common) ==
    IF i > high
    THEN IF min_common = -1 THEN 0 ELSE min_common
    ELSE LET k == PrefixScan(ref, text[arr[i]], depth, 0, min_common)
             m == IF min_common = -1 \/ k < min_common THEN k ELSE min_common
         IN  IF m = 0 THEN 0 ELSE PrefixLoop(arr, ref, i + 1, high, depth, m)

\* the prefix length of the first pair only: the minimum over the range lost
get_common_prefix_FirstPair(arr, low, high, depth) ==
    IF low >= high THEN 0
    ELSE PrefixScan(text[arr[low]], text[arr[low + 1]], depth, 0, -1)

get_common_prefix(arr, low, high, depth) ==
    IF low >= high THEN 0
    ELSE PrefixLoop(arr, text[arr[low]], low + 1, high, depth, -1)

RECURSIVE strcmp(_, _, _)
\* strcmp(s1 + from, s2 + from)
strcmp(s1, s2, from) ==
    IF CharAt(s1, from) # CharAt(s2, from) THEN CharAt(s1, from) - CharAt(s2, from)
    ELSE IF CharAt(s1, from) = 0 THEN 0
    ELSE strcmp(s1, s2, from + 1)

compare_skip(s1, s2, depth) == strcmp(s1, s2, depth)

RECURSIVE ScanUp(_, _, _, _, _)
\* while (i <= high && compare_skip(arr[i], pivot, new_depth) < 0) i++;
ScanUp(arr, i, high, pivot, depth) ==
    IF i <= high /\ compare_skip(text[arr[i]], text[pivot], depth) < 0
    THEN ScanUp(arr, i + 1, high, pivot, depth)
    ELSE i

RECURSIVE ScanDown(_, _, _, _, _)
\* while (j > low && compare_skip(arr[j], pivot, new_depth) > 0) j--;
ScanDown(arr, j, low, pivot, depth) ==
    IF j > low /\ compare_skip(text[arr[j]], text[pivot], depth) > 0
    THEN ScanDown(arr, j - 1, low, pivot, depth)
    ELSE j

RECURSIVE NaivePartition(_, _, _, _, _, _, _)
\* while (i <= j) { scan up; scan down; if (i <= j) { swap; i++; j--; } }
NaivePartition(arr, i, j, low, high, pivot, depth) ==
    IF i > j THEN [arr |-> arr, i |-> i, j |-> j]
    ELSE LET i2 == ScanUp(arr, i, high, pivot, depth)
             j2 == ScanDown(arr, j, low, pivot, depth)
         IN  IF i2 <= j2
             THEN NaivePartition(swap(arr, i2, j2), i2 + 1, j2 - 1,
                                 low, high, pivot, depth)
             ELSE NaivePartition(arr, i2, j2, low, high, pivot, depth)

RECURSIVE common_prefix_quicksort_recursive(_, _, _, _)
common_prefix_quicksort_recursive(arr, low, high, depth) ==
    IF low >= high THEN {arr}
    ELSE LET new_depth == depth + get_common_prefix(arr, low, high, depth)
         IN  UNION {
               LET moved == swap(arr, low, pivot_idx)
                   p == NaivePartition(moved, low + 1, high, low, high,
                                       moved[low], new_depth)
                   placed == swap(p.arr, low, p.j)
               IN  UNION {common_prefix_quicksort_recursive(l, p.i, high, new_depth) :
                            l \in common_prefix_quicksort_recursive(
                                      placed, low, p.j - 1, new_depth)}
               : pivot_idx \in low..high}

legrand_sort(arr, len) == common_prefix_quicksort_recursive(arr, 0, len - 1, 0)

\* ------------------------------------------------------------------- C12
\* C12: for every input and every sequence of pivot choices of either
\* variant, the naive variant and the cached variant, when it has run,
\* return the same sequence of string values.
C12_SameOutput ==
    (pc = "done" /\ ~allocFailed) =>
        /\ legrand_sort(input, n) # {}
        /\ \A out \in legrand_sort(input, n) :
              [k \in DOMAIN out |-> text[out[k]]] = Output

\* three or more strings out of order that share their first byte, so that
\* the naive variant skips a common prefix, and are not all equal
C12_Witness ==
    /\ pc = "done" /\ ~allocFailed /\ n >= 3
    /\ get_common_prefix(input, 0, n - 1, 0) > 0
    /\ \E k \in DOMAIN input : (k + 1) \in DOMAIN input
                               /\ StrCmp(text[input[k]], text[input[k + 1]]) > 0
    /\ Output # [k \in DOMAIN input |-> text[input[k]]]

====
